---- MODULE Spec2Model ----
(***************************************************************************)
(* Model of app.py: the inventory reader get_models(), the chat relay      *)
(* chat_with_model() and the event handlers respond / clear /              *)
(* refresh_models that create_interface() wires to the widgets.            *)
(*                                                                         *)
(* A Python str is a sequence of one-character strings; a list is a        *)
(* sequence; a dict is a record.                                           *)
(***************************************************************************)
EXTENDS Integers, Sequences, FiniteSets, TLC

VARIABLES
    inv_rows,          \* the rows the inventory command printed (environment)
    inv_run,           \* outcome of subprocess.run(['ollama', 'list'], ...)
    inv_ret,           \* outcome of the last get_models() call
    rel_in,            \* arguments and endpoint behaviour of the last relay
    rel_out,           \* outcome of the last chat_with_model() call
    chat_history,      \* value of the chatbot widget
    msg,               \* value of the message textbox
    model_table,       \* value of the model table
    dropdown_choices,  \* choices of the model dropdown
    model_name,        \* selected value of the model dropdown
    last_op,           \* the event handled last
    submits            \* non-empty submits handled since the last clear

vars == <<inv_rows, inv_run, inv_ret, rel_in, rel_out, chat_history, msg,
          model_table, dropdown_choices, model_name, last_op, submits>>

(***************************************************************************)
(* Bounds                                                                  *)
(***************************************************************************)
MaxLines == 3      \* rows printed by the inventory command
MaxHist  == 2      \* prior turns handed to chat_with_model directly
MaxTurns == 2      \* turns a UI session accumulates before it must clear

(***************************************************************************)
(* Python str / list built-ins used by the code                            *)
(***************************************************************************)
Whitespace == {" ", "\t", "\n", "\r"}

RECURSIVE LStrip(_)
LStrip(s) == IF s # <<>> /\ Head(s) \in Whitespace THEN LStrip(Tail(s)) ELSE s

RECURSIVE RStrip(_)
RStrip(s) ==
    IF s # <<>> /\ s[Len(s)] \in Whitespace
    THEN RStrip(SubSeq(s, 1, Len(s) - 1))
    ELSE s

\* s.strip()
Strip(s) == RStrip(LStrip(s))

\* s.split(sep) for a one-character sep: never empty, keeps empty pieces
RECURSIVE Split(_, _)
Split(s, sep) ==
    IF \A i \in 1..Len(s) : s[i] # sep
    THEN <<s>>
    ELSE LET k == CHOOSE i \in 1..Len(s) :
                      s[i] = sep /\ \A j \in 1..(i - 1) : s[j] # sep
         IN  <<SubSeq(s, 1, k - 1)>> \o Split(SubSeq(s, k + 1, Len(s)), sep)

\* s.split(): runs of non-whitespace characters
RECURSIVE SplitWs(_)
SplitWs(s) ==
    LET t == LStrip(s) IN
    IF t = <<>>
    THEN <<>>
    ELSE LET n == IF \A i \in 1..Len(t) : t[i] \notin Whitespace
                  THEN Len(t)
                  ELSE (CHOOSE i \in 1..Len(t) :
                            t[i] \in Whitespace
                            /\ \A j \in 1..(i - 1) : t[j] \notin Whitespace) - 1
         IN  <<SubSeq(t, 1, n)>> \o SplitWs(SubSeq(t, n + 1, Len(t)))

\* sep.join(parts)
RECURSIVE Join(_, _)
Join(parts, sep) ==
    IF parts = <<>> THEN <<>>
    ELSE IF Len(parts) = 1 THEN parts[1]
    ELSE parts[1] \o sep \o Join(Tail(parts), sep)

\* sub in s
Contains(s, sub) ==
    \E i \in 1..(Len(s) - Len(sub) + 1) : SubSeq(s, i, i + Len(sub) - 1) = sub

StartsWith(s, p) == Len(s) >= Len(p) /\ SubSeq(s, 1, Len(p)) = p

(***************************************************************************)
(* Exceptions.  A raised exception is a record [type, text]; text is       *)
(* str(e).  Every type below derives from Exception.                       *)
(***************************************************************************)
ExceptionClasses ==
    {"FileNotFoundError", "UnicodeDecodeError", "ConnectionError",
     "ResponseError", "KeyError", "TypeError", "ValueError"}

\* `except Exception as e:` of get_models catches e
CaughtInGetModels(e) == e.type \in ExceptionClasses

\* `except Exception as e:` of chat_with_model catches e
ExceptOnlyConnectionError(e) == e.type = "ConnectionError"
CaughtInChat(e) == e.type \in ExceptionClasses

(***************************************************************************)
(* 4.1  Inventory reader: get_models()                                     *)
(***************************************************************************)
NAME == <<"N", "A", "M", "E">>
Unknown == <<"U", "n", "k", "n", "o", "w", "n">>

\* the fallback record
Placeholder ==
    [name      |-> <<"l", "l", "a", "m", "a", "2">>,
     full_name |-> <<"l", "l", "a", "m", "a", "2", ":", "7", "b">>,
     size      |-> Unknown,
     modified  |-> Unknown]

\* the dict appended for one row with at least four tokens
RecordDropsTag(parts) ==
    [name      |-> Split(parts[1], ":")[1],
     full_name |-> Split(parts[1], ":")[1],
     size      |-> parts[2] \o <<" ">> \o parts[3],
     modified  |-> Join(SubSeq(parts, 4, Len(parts)), <<" ">>)]
RecordOf(parts) ==
    [name      |-> Split(parts[1], ":")[1],
     full_name |-> parts[1],
     size      |-> parts[2] \o <<" ">> \o parts[3],
     modified  |-> Join(SubSeq(parts, 4, Len(parts)), <<" ">>)]

\* start_idx = 1 if 'NAME' in lines[0] else 0
StartIdxAlwaysSkips(lines) == 1
StartIdx(lines) == IF Contains(lines[1], NAME) THEN 1 ELSE 0

\* the loop over lines[start_idx:]
RECURSIVE ParseLinesKeepsThree(_)
ParseLinesKeepsThree(lines) ==
    IF lines = <<>> THEN <<>>
    ELSE LET line  == Head(lines)
             parts == SplitWs(line)
         IN  IF Strip(line) = <<>>
             THEN ParseLinesKeepsThree(Tail(lines))
             ELSE IF Len(parts) >= 3
                  THEN <<RecordOf(parts)>> \o ParseLinesKeepsThree(Tail(lines))
                  ELSE ParseLinesKeepsThree(Tail(lines))
RECURSIVE ParseLines(_)
ParseLines(lines) ==
    IF lines = <<>> THEN <<>>
    ELSE LET line  == Head(lines)
             parts == SplitWs(line)
         IN  IF Strip(line) = <<>>
             THEN ParseLines(Tail(lines))
             ELSE IF Len(parts) >= 4
                  THEN <<RecordOf(parts)>> \o ParseLines(Tail(lines))
                  ELSE ParseLines(Tail(lines))

\* models, as built from result.stdout
ParseStdout(stdout) ==
    LET lines == Split(Strip(stdout), "\n")
    IN  ParseLines(SubSeq(lines, StartIdx(lines) + 1, Len(lines)))

\* return models if models else [placeholder]
OrPlaceholderNever(models) == models
OrPlaceholder(models) == IF models # <<>> THEN models ELSE <<Placeholder>>

\* the try block
GetModelsBodyIgnoresExit(run) ==
    IF run.kind = "raise"
    THEN [kind |-> "raise", exc |-> run.exc]
    ELSE [kind |-> "return", value |-> OrPlaceholder(ParseStdout(run.stdout))]
GetModelsBody(run) ==
    IF run.kind = "raise"
    THEN [kind |-> "raise", exc |-> run.exc]
    ELSE IF run.returncode # 0
         THEN [kind |-> "return", value |-> <<Placeholder>>]
         ELSE [kind |-> "return", value |-> OrPlaceholder(ParseStdout(run.stdout))]

\* get_models(): [raised, ret] when it returns, [raised, exc] when it raises
GetModels(run) ==
    LET body == GetModelsBody(run) IN
    IF body.kind = "return"
    THEN [raised |-> FALSE, ret |-> body.value]
    ELSE IF CaughtInGetModels(body.exc)
         THEN [raised |-> FALSE, ret |-> <<Placeholder>>]
         ELSE [raised |-> TRUE, exc |-> body.exc]

(***************************************************************************)
(* 4.2  Chat relay: chat_with_model()                                      *)
(***************************************************************************)
\* the system_message literal, cut after its first words
system_message ==
    <<"Y", "o", "u", " ", "a", "r", "e", " ", "a", "n", " ", "A", "I">>

ErrorPrefix == <<"E", "r", "r", "o", "r", ":", " ">>

\* for human_msg, assistant_msg in history: messages.append(...) twice
RECURSIVE HistoryMessagesAssistantFirst(_)
HistoryMessagesAssistantFirst(history) ==
    IF history = <<>> THEN <<>>
    ELSE <<[role |-> "assistant", content |-> Head(history)[2]],
           [role |-> "user", content |-> Head(history)[1]]>>
         \o HistoryMessagesAssistantFirst(Tail(history))
RECURSIVE HistoryMessages(_)
HistoryMessages(history) ==
    IF history = <<>> THEN <<>>
    ELSE <<[role |-> "user", content |-> Head(history)[1]],
           [role |-> "assistant", content |-> Head(history)[2]]>>
         \o HistoryMessages(Tail(history))

\* messages, as assembled before the call
BuildMessages(message, history) ==
    <<[role |-> "system", content |-> system_message]>>
    \o HistoryMessages(history)
    \o <<[role |-> "user", content |-> message]>>

\* the keyword arguments of ollama.chat(...)
ChatRequestFixedModel(message, history, model, temperature) ==
    [model    |-> <<"l", "l", "a", "m", "a", "2">>,
     messages |-> BuildMessages(message, history),
     options  |-> [temperature |-> temperature]]
ChatRequest(message, history, model, temperature) ==
    [model    |-> model,
     messages |-> BuildMessages(message, history),
     options  |-> [temperature |-> temperature]]

UnpackError == [type |-> "ValueError", text |-> <<"u", "n", "p", "a", "c", "k">>]
KeyErrorOf(key) == [type |-> "KeyError", text |-> <<"'">> \o key \o <<"'">>]
KeyMessage == <<"m", "e", "s", "s", "a", "g", "e">>
KeyContent == <<"c", "o", "n", "t", "e", "n", "t">>

\* response['message']['content']
ReadReply(response) ==
    IF "message" \notin DOMAIN response
    THEN [kind |-> "raise", exc |-> KeyErrorOf(KeyMessage)]
    ELSE IF "content" \notin DOMAIN response.message
         THEN [kind |-> "raise", exc |-> KeyErrorOf(KeyContent)]
         ELSE [kind |-> "return", value |-> response.message.content]

\* the try block; calls lists the requests that reached the endpoint
ChatBody(message, history, model, temperature, endpoint) ==
    IF \E i \in 1..Len(history) : Len(history[i]) # 2
    THEN [kind |-> "raise", exc |-> UnpackError, calls |-> <<>>]
    ELSE LET request == ChatRequest(message, history, model, temperature) IN
         IF endpoint.kind = "raise"
         THEN [kind |-> "raise", exc |-> endpoint.exc, calls |-> <<request>>]
         ELSE LET reply == ReadReply(endpoint.response) IN
              IF reply.kind = "raise"
              THEN [kind |-> "raise", exc |-> reply.exc, calls |-> <<request>>]
              ELSE [kind |-> "return", value |-> reply.value,
                    calls |-> <<request>>]

\* chat_with_model()
ChatWithModel(message, history, model, temperature, endpoint) ==
    LET body == ChatBody(message, history, model, temperature, endpoint) IN
    IF body.kind = "return"
    THEN [raised |-> FALSE, ret |-> body.value, calls |-> body.calls]
    ELSE IF CaughtInChat(body.exc)
         THEN [raised |-> FALSE, ret |-> ErrorPrefix \o body.exc.text,
               calls |-> body.calls]
         ELSE [raised |-> TRUE, exc |-> body.exc, calls |-> body.calls]

(***************************************************************************)
(* Event handlers of create_interface()                                    *)
(***************************************************************************)
NoCall == [kind |-> "none"]

\* respond(): the new values of msg and chatbot, and the relay it made
RespondRelaysEmpty(message, history, model, temp, endpoint) ==
    LET out == ChatWithModel(message, history, model, temp, endpoint) IN
    [msg     |-> <<>>,
     chatbot |-> Append(history, <<message, out.ret>>),
     relayed |-> TRUE,
     out     |-> out]
RespondSkipsErrors(message, history, model, temp, endpoint) ==
    IF message = <<>>
    THEN [msg |-> <<>>, chatbot |-> history, relayed |-> FALSE, out |-> NoCall]
    ELSE LET out == ChatWithModel(message, history, model, temp, endpoint) IN
         [msg     |-> <<>>,
          chatbot |-> IF StartsWith(out.ret, ErrorPrefix)
                      THEN history
                      ELSE Append(history, <<message, out.ret>>),
          relayed |-> TRUE,
          out     |-> out]
Respond(message, history, model, temp, endpoint) ==
    IF message = <<>>
    THEN [msg |-> <<>>, chatbot |-> history, relayed |-> FALSE, out |-> NoCall]
    ELSE LET out == ChatWithModel(message, history, model, temp, endpoint) IN
         [msg     |-> <<>>,
          chatbot |-> Append(history, <<message, out.ret>>),
          relayed |-> TRUE,
          out     |-> out]

\* the rows of the model table
TableOf(models) ==
    [i \in 1..Len(models) |->
        <<models[i].name, models[i].full_name, models[i].size,
          models[i].modified>>]

\* the choices of the dropdown
ChoicesOf(models) == [i \in 1..Len(models) |-> models[i].full_name]

\* refresh_models(): the new values of model_table and model_dropdown
RefreshModels(run) ==
    LET new_models == GetModels(run).ret IN
    [table |-> TableOf(new_models), choices |-> ChoicesOf(new_models)]

\* clear.click(lambda: None, None, chatbot): the chatbot shows no turns
Cleared(history) == <<>>

(***************************************************************************)
(* The inventory command (environment).  It prints rows of whitespace-     *)
(* separated fields, one per line; a row is [lead, toks, sep, trail].      *)
(***************************************************************************)
BlankRow  == [lead |-> <<>>, toks |-> <<>>, sep |-> <<" ">>, trail |-> <<>>]
SpaceRow  == [lead |-> <<" ">>, toks |-> <<>>, sep |-> <<" ">>, trail |-> <<>>]
HeaderRow ==
    [lead |-> <<>>, toks |-> <<NAME, <<"I", "D">>, <<"S">>, <<"M">>>>,
     sep |-> <<" ", " ">>, trail |-> <<" ">>]
TaggedRow ==
    [lead |-> <<>>,
     toks |-> <<<<"a", ":", "b", ":", "c">>, <<"4">>, <<"G", "B">>, <<"n", "o", "w">>>>,
     sep |-> <<" ">>, trail |-> <<"\r">>]
LongRow ==
    [lead |-> <<" ">>,
     toks |-> <<<<"q">>, <<"1">>, <<"M", "B">>, <<"2">>, <<"d">>>>,
     sep |-> <<"\t">>, trail |-> <<>>]
ShortRow ==
    [lead |-> <<>>, toks |-> <<<<"e", ":", "f">>, <<"9">>, <<"k", "B">>>>,
     sep |-> <<" ">>, trail |-> <<>>]
RenamedRow ==
    [lead |-> <<>>,
     toks |-> <<<<"x", "N", "A", "M", "E", ":", "z">>, <<"7">>, <<"G", "B">>, <<"z">>>>,
     sep |-> <<" ">>, trail |-> <<>>]

RowTemplates ==
    {BlankRow, SpaceRow, HeaderRow, TaggedRow, LongRow, ShortRow, RenamedRow}

RowSeqs(n) == UNION {[1..k -> RowTemplates] : k \in 0..n}

RenderRow(row) == row.lead \o Join(row.toks, row.sep) \o row.trail

\* the text the command writes to its standard output
RenderRows(rows) == Join([i \in 1..Len(rows) |-> RenderRow(rows[i])], <<"\n">>)

NotFound   == [type |-> "FileNotFoundError", text |-> <<"o", "l", "l", "a", "m", "a">>]
BadDecode  == [type |-> "UnicodeDecodeError", text |-> <<"u", "t", "f">>]

\* what subprocess.run can do: raise, or complete with a return code
RunOutcomes(rows) ==
    {[kind |-> "exit", returncode |-> rc, stdout |-> RenderRows(rows)] :
        rc \in {0, 1}}
RunRaises == {[kind |-> "raise", exc |-> e] : e \in {NotFound, BadDecode}}

Called(r) == "raised" \in DOMAIN r

(***************************************************************************)
(* SpecInv: get_models() applied to every outcome of the inventory command *)
(***************************************************************************)
UiIdle ==
    /\ rel_in = NoCall
    /\ rel_out = NoCall
    /\ chat_history = <<>>
    /\ msg = <<>>
    /\ model_table = <<>>
    /\ dropdown_choices = <<>>
    /\ model_name = <<>>
    /\ last_op = "none"
    /\ submits = 0

InitInv ==
    /\ \/ /\ inv_rows \in RowSeqs(MaxLines)
          /\ inv_run \in RunOutcomes(inv_rows)
       \/ /\ inv_rows = <<>>
          /\ inv_run \in RunRaises
    /\ inv_ret = NoCall
    /\ UiIdle

CallGetModels ==
    /\ inv_ret = NoCall
    /\ inv_ret' = GetModels(inv_run)
    /\ UNCHANGED <<inv_rows, inv_run, rel_in, rel_out, chat_history, msg,
                   model_table, dropdown_choices, model_name, last_op, submits>>

NextInv == CallGetModels

SpecInv == InitInv /\ [][NextInv]_vars

(***************************************************************************)
(* What the rows printed by the command say, field by field                *)
(***************************************************************************)
HasNAME(row) ==
    \E t \in 1..Len(row.toks) :
        \E i \in 1..Len(row.toks[t]) :
            /\ i + 3 <= Len(row.toks[t])
            /\ row.toks[t][i] = "N" /\ row.toks[t][i + 1] = "A"
            /\ row.toks[t][i + 2] = "M" /\ row.toks[t][i + 3] = "E"

NonBlank(rows) == {i \in 1..Len(rows) : rows[i].toks # <<>>}

\* index of the first line of the stripped output, 0 when there is none
FirstLine(rows) ==
    IF NonBlank(rows) = {} THEN 0
    ELSE CHOOSE i \in NonBlank(rows) : \A j \in NonBlank(rows) : i <= j

IsHeader(rows, i) == i = FirstLine(rows) /\ HasNAME(rows[i])

\* the rows that are neither the header nor short, in output order
RECURSIVE KeptFrom(_, _)
KeptFrom(rows, i) ==
    IF i > Len(rows) THEN <<>>
    ELSE IF ~IsHeader(rows, i) /\ Len(rows[i].toks) >= 4
         THEN <<rows[i]>> \o KeptFrom(rows, i + 1)
         ELSE KeptFrom(rows, i + 1)
Kept(rows) == KeptFrom(rows, 1)

\* the longest colon-free prefix of a token
BareName(tok) ==
    LET n == CHOOSE k \in 0..Len(tok) :
                 /\ \A j \in 1..k : tok[j] # ":"
                 /\ (k = Len(tok) \/ tok[k + 1] = ":")
    IN  SubSeq(tok, 1, n)

RECURSIVE Spaced(_)
Spaced(toks) ==
    IF toks = <<>> THEN <<>>
    ELSE IF Len(toks) = 1 THEN toks[1]
    ELSE toks[1] \o <<" ">> \o Spaced(Tail(toks))

Succeeded == Called(inv_ret) /\ inv_run.kind = "exit" /\ inv_run.returncode = 0

InventoryFailed ==
    \/ inv_run.kind = "raise"
    \/ inv_run.returncode # 0
    \/ Kept(inv_rows) = <<>>

\* C1: get_models() returns a non-empty list and does not raise, whatever
\* the inventory command did (exit code, output text, exception).
C1_NeverEmpty ==
    Called(inv_ret) => ~inv_ret.raised /\ Len(inv_ret.ret) >= 1

C1_Witness ==
    /\ Called(inv_ret)
    /\ inv_run.kind = "raise"
    /\ Len(inv_ret.ret) = 1

\* C2: on a non-zero exit, an exception or zero parseable rows the result is
\* exactly the one placeholder record and nothing is raised; when a row was
\* parsed the result holds the parsed rows only, without the placeholder.
C2_PlaceholderOnFailure ==
    Called(inv_ret) =>
        /\ ~inv_ret.raised
        /\ InventoryFailed => inv_ret.ret = <<Placeholder>>
        /\ ~InventoryFailed =>
              /\ Len(inv_ret.ret) = Len(Kept(inv_rows))
              /\ \A i \in 1..Len(inv_ret.ret) : inv_ret.ret[i] # Placeholder

C2_Witness ==
    /\ Called(inv_ret)
    /\ inv_run.kind = "exit"
    /\ inv_run.returncode # 0
    /\ Kept(inv_rows) # <<>>
    /\ inv_ret.ret = <<Placeholder>>

\* C3: the record of a data row with at least four tokens has full_name =
\* the first token, name = the first token up to its first colon, size = the
\* second and third tokens joined by a space, modified = the remaining
\* tokens joined by single spaces.
C3_RecordFields ==
    Succeeded =>
        \A i \in 1..Len(Kept(inv_rows)) :
            LET toks == Kept(inv_rows)[i].toks IN
            /\ i <= Len(inv_ret.ret)
            /\ inv_ret.ret[i].full_name = toks[1]
            /\ inv_ret.ret[i].name = BareName(toks[1])
            /\ inv_ret.ret[i].size = toks[2] \o <<" ">> \o toks[3]
            /\ inv_ret.ret[i].modified = Spaced(SubSeq(toks, 4, Len(toks)))

C3_Witness ==
    /\ Succeeded
    /\ inv_rows = <<HeaderRow, TaggedRow, LongRow>>
    /\ inv_ret.ret[1].name = <<"a">>
    /\ inv_ret.ret[2].name = <<"q">>
    /\ inv_ret.ret[2].modified = <<"2", " ", "d">>

FullNames(rows) == [i \in 1..Len(rows) |-> rows[i].toks[1]]
ReturnedFullNames == [i \in 1..Len(inv_ret.ret) |-> inv_ret.ret[i].full_name]

\* C4 as stated: on a successful call the result holds exactly one record
\* per row that is not the header and has at least four tokens, in order.
C4_OneRecordPerKeptRow ==
    Succeeded => ReturnedFullNames = FullNames(Kept(inv_rows))

\* C4 amended: the same, provided at least one row remains; when none
\* remains the result is the placeholder record alone.
C4_OneRecordPerKeptRowOrPlaceholder ==
    Succeeded =>
        IF Kept(inv_rows) # <<>>
        THEN ReturnedFullNames = FullNames(Kept(inv_rows))
        ELSE inv_ret.ret = <<Placeholder>>

C4_Witness ==
    /\ Succeeded
    /\ inv_rows = <<TaggedRow, ShortRow, TaggedRow>>
    /\ Len(inv_ret.ret) = 2
    /\ inv_ret.ret[1] = inv_ret.ret[2]

FourTokenRows(rows) == {i \in 1..Len(rows) : Len(rows[i].toks) >= 4}

\* C8: only the first line of the stripped output can be skipped as the
\* header, and it is skipped exactly when it contains NAME; any other line,
\* and a first line without NAME, is parsed as a data row.
C8_HeaderOnlyFirstLine ==
    Succeeded =>
        LET f       == FirstLine(inv_rows)
            skipped == IF f # 0 /\ HasNAME(inv_rows[f]) THEN {f} ELSE {}
            parsed  == FourTokenRows(inv_rows) \ skipped
        IN  parsed # {} =>
                LET first == CHOOSE i \in parsed : \A j \in parsed : i <= j
                    final == CHOOSE i \in parsed : \A j \in parsed : j <= i
                IN  /\ Len(inv_ret.ret) = Cardinality(parsed)
                    /\ inv_ret.ret[1].full_name = inv_rows[first].toks[1]
                    /\ inv_ret.ret[Len(inv_ret.ret)].full_name =
                           inv_rows[final].toks[1]

C8_Witness ==
    /\ Succeeded
    /\ inv_rows = <<SpaceRow, HeaderRow, HeaderRow>>
    /\ Len(inv_ret.ret) = 1
    /\ inv_ret.ret[1].full_name = NAME

(***************************************************************************)
(* The chat endpoint and the callers' inputs (environment)                 *)
(***************************************************************************)
Hi == <<"h", "i">>
Yo == <<"y", "o">>
ReplyOk == <<"o", "k">>
UserTexts == {Hi, Yo}

ConnRefused == [type |-> "ConnectionError", text |-> <<"d", "o", "w", "n">>]
NoSuchModel == [type |-> "ResponseError", text |-> <<"4", "0", "4">>]

GoodResponse == [message |-> [role |-> "assistant", content |-> ReplyOk]]
NoContent    == [message |-> [role |-> "assistant"]]
NoMessage    == [error |-> <<"b", "a", "d">>]

\* what ollama.chat can do: raise, or return a response
Endpoints ==
    {[kind |-> "raise", exc |-> e] : e \in {ConnRefused, NoSuchModel}}
    \cup {[kind |-> "ok", response |-> r] :
             r \in {GoodResponse, NoContent, NoMessage}}

ModelIds == {<<"q">>, <<"a", ":", "b", ":", "c">>}
Temperatures == {0, 7}     \* tenths: the slider runs from 0 to 1

\* history entries: [user, assistant] pairs, and entries that are no pair
PairEntries ==
    {<<u, a>> : u \in UserTexts, a \in {ReplyOk, ErrorPrefix \o ConnRefused.text}}
HistoryEntries == PairEntries \cup {<<Hi>>, <<Hi, ReplyOk, Yo>>}
Histories(n) == UNION {[1..k -> HistoryEntries] : k \in 0..n}

RelayInputs ==
    [message     : UserTexts \cup {<<>>},
     history     : Histories(MaxHist),
     model_name  : ModelIds,
     temperature : Temperatures,
     endpoint    : Endpoints]

(***************************************************************************)
(* SpecRelay: chat_with_model() applied to every input                     *)
(***************************************************************************)
InitRelay ==
    /\ rel_in \in RelayInputs
    /\ rel_out = NoCall
    /\ inv_rows = <<>>
    /\ inv_run = NoCall
    /\ inv_ret = NoCall
    /\ chat_history = <<>>
    /\ msg = <<>>
    /\ model_table = <<>>
    /\ dropdown_choices = <<>>
    /\ model_name = <<>>
    /\ last_op = "none"
    /\ submits = 0

CallChatWithModel ==
    /\ rel_out = NoCall
    /\ rel_out' = ChatWithModel(rel_in.message, rel_in.history,
                                rel_in.model_name, rel_in.temperature,
                                rel_in.endpoint)
    /\ UNCHANGED <<inv_rows, inv_run, inv_ret, rel_in, chat_history, msg,
                   model_table, dropdown_choices, model_name, last_op, submits>>

NextRelay == CallChatWithModel

SpecRelay == InitRelay /\ [][NextRelay]_vars

AllPairs(history) == \A i \in 1..Len(history) : Len(history[i]) = 2

Malformed(response) ==
    \/ "message" \notin DOMAIN response
    \/ "content" \notin DOMAIN response.message

\* something raises while the request is assembled, sent or the reply read
RelayFails(in) ==
    \/ ~AllPairs(in.history)
    \/ in.endpoint.kind = "raise"
    \/ in.endpoint.kind = "ok" /\ Malformed(in.endpoint.response)

\* C5: with N prior turns the payload has 1 + 2N + 1 elements: the system
\* message, then the user and assistant message of each turn in order, then
\* the new message as a user message.
C5_PayloadShape ==
    Called(rel_out) /\ AllPairs(rel_in.history) =>
        /\ Len(rel_out.calls) = 1
        /\ LET p == rel_out.calls[1].messages
               N == Len(rel_in.history)
           IN  /\ Len(p) = 1 + 2 * N + 1
               /\ p[1].role = "system"
               /\ \A i \in 1..N :
                     /\ p[2 * i] =
                            [role |-> "user", content |-> rel_in.history[i][1]]
                     /\ p[2 * i + 1] =
                            [role |-> "assistant", content |-> rel_in.history[i][2]]
               /\ p[Len(p)] = [role |-> "user", content |-> rel_in.message]

C5_Witness ==
    /\ Called(rel_out)
    /\ Len(rel_in.history) = 2
    /\ AllPairs(rel_in.history)
    /\ rel_in.history[1] # rel_in.history[2]
    /\ Len(rel_out.calls) = 1
    /\ Len(rel_out.calls[1].messages) = 6

\* C6: when anything raises, chat_with_model returns "Error: " followed by
\* the exception text, does not raise, returns no part of a reply and has
\* called the endpoint at most once.
C6_ErrorString ==
    Called(rel_out) /\ RelayFails(rel_in) =>
        /\ ~rel_out.raised
        /\ StartsWith(rel_out.ret, ErrorPrefix)
        /\ \E e \in {UnpackError, ConnRefused, NoSuchModel,
                     KeyErrorOf(KeyMessage), KeyErrorOf(KeyContent)} :
               rel_out.ret = ErrorPrefix \o e.text
        /\ Len(rel_out.calls) <= 1

C6_Witness ==
    /\ Called(rel_out)
    /\ AllPairs(rel_in.history)
    /\ rel_in.endpoint.kind = "ok"
    /\ Malformed(rel_in.endpoint.response)
    /\ Len(rel_out.calls) = 1
    /\ StartsWith(rel_out.ret, ErrorPrefix)

\* C7: when the call succeeds the endpoint was called exactly once, with the
\* model identifier and the temperature option as given, and the return
\* value is the message content of the response.
C7_PassThrough ==
    Called(rel_out) /\ ~RelayFails(rel_in) =>
        /\ ~rel_out.raised
        /\ Len(rel_out.calls) = 1
        /\ rel_out.calls[1].model = rel_in.model_name
        /\ rel_out.calls[1].options = [temperature |-> rel_in.temperature]
        /\ rel_out.ret = rel_in.endpoint.response.message.content

C7_Witness ==
    /\ Called(rel_out)
    /\ ~RelayFails(rel_in)
    /\ rel_in.temperature = 7
    /\ rel_in.model_name = <<"q">>
    /\ Len(rel_in.history) = 1
    /\ rel_out.ret = ReplyOk

(***************************************************************************)
(* Spec: a UI session.  The user types, picks a model, submits, clears and *)
(* refreshes in any order; each event runs its handler to completion.      *)
(***************************************************************************)
UiInventory ==
    {[rows |-> rows, run |-> run] :
        rows \in {<<HeaderRow, TaggedRow, LongRow>>},
        run \in RunOutcomes(<<HeaderRow, TaggedRow, LongRow>>)}
    \cup {[rows |-> <<>>, run |-> run] :
              run \in RunOutcomes(<<>>) \cup {[kind |-> "raise", exc |-> NotFound]}}

UiEndpoints ==
    {[kind |-> "raise", exc |-> ConnRefused],
     [kind |-> "ok", response |-> GoodResponse],
     [kind |-> "ok", response |-> NoMessage]}

\* create_interface(): widgets filled from the initial get_models() call
Init ==
    /\ \E inv \in UiInventory : inv_rows = inv.rows /\ inv_run = inv.run
    /\ inv_ret = GetModels(inv_run)
    /\ model_table = TableOf(inv_ret.ret)
    /\ dropdown_choices = ChoicesOf(inv_ret.ret)
    /\ model_name = inv_ret.ret[1].full_name
    /\ chat_history = <<>>
    /\ msg = <<>>
    /\ rel_in = NoCall
    /\ rel_out = NoCall
    /\ last_op = "init"
    /\ submits = 0

\* the user edits the message textbox
TypeMessage ==
    /\ \E m \in UserTexts \cup {<<>>} : msg' = m
    /\ last_op' = "type"
    /\ UNCHANGED <<inv_rows, inv_run, inv_ret, rel_in, rel_out, chat_history,
                   model_table, dropdown_choices, model_name, submits>>

\* the user picks one of the dropdown's choices
SelectModel ==
    /\ \E i \in 1..Len(dropdown_choices) : model_name' = dropdown_choices[i]
    /\ last_op' = "select"
    /\ UNCHANGED <<inv_rows, inv_run, inv_ret, rel_in, rel_out, chat_history,
                   msg, model_table, dropdown_choices, submits>>

\* submit.click / msg.submit: respond(msg, chatbot, model_dropdown, temperature)
Submit ==
    /\ Len(chat_history) < MaxTurns
    /\ \E temp \in Temperatures, endpoint \in UiEndpoints :
          LET r == Respond(msg, chat_history, model_name, temp, endpoint) IN
          /\ msg' = r.msg
          /\ chat_history' = r.chatbot
          /\ rel_out' = r.out
          /\ rel_in' = IF r.relayed
                       THEN [message |-> msg, history |-> chat_history,
                             model_name |-> model_name, temperature |-> temp,
                             endpoint |-> endpoint]
                       ELSE NoCall
          /\ submits' = IF r.relayed THEN submits + 1 ELSE submits
    /\ last_op' = "submit"
    /\ UNCHANGED <<inv_rows, inv_run, inv_ret, model_table, dropdown_choices,
                   model_name>>

\* clear.click
Clear ==
    /\ chat_history' = Cleared(chat_history)
    /\ rel_in' = NoCall
    /\ rel_out' = NoCall
    /\ submits' = 0
    /\ last_op' = "clear"
    /\ UNCHANGED <<inv_rows, inv_run, inv_ret, msg, model_table,
                   dropdown_choices, model_name>>

\* refresh_button.click
Refresh ==
    /\ \E inv \in UiInventory :
          /\ inv_rows' = inv.rows
          /\ inv_run' = inv.run
          /\ inv_ret' = GetModels(inv.run)
          /\ model_table' = RefreshModels(inv.run).table
          /\ dropdown_choices' = RefreshModels(inv.run).choices
    /\ last_op' = "refresh"
    /\ UNCHANGED <<rel_in, rel_out, chat_history, msg, model_name,
                   submits>>

Next == TypeMessage \/ SelectModel \/ Submit \/ Clear \/ Refresh

Spec == Init /\ [][Next]_vars

\* C9: a non-empty submit appends exactly the turn (message, reply) and
\* keeps every earlier turn; an empty submit changes nothing and relays
\* nothing; refresh keeps the history; clear empties it.
C9_AppendOnlyBetweenClears ==
    [][ /\ last_op' = "submit" /\ msg # <<>> =>
              /\ Called(rel_out')
              /\ Len(rel_out'.calls) = 1
              /\ chat_history' = Append(chat_history, <<msg, rel_out'.ret>>)
        /\ last_op' = "submit" /\ msg = <<>> =>
              /\ chat_history' = chat_history
              /\ rel_out' = NoCall
        /\ last_op' = "refresh" => chat_history' = chat_history
        /\ last_op' = "clear" => chat_history' = <<>>
        /\ last_op' \in {"type", "select"} => chat_history' = chat_history
      ]_vars

C9_Witness ==
    /\ last_op = "submit"
    /\ Called(rel_out)
    /\ Len(chat_history) = 2
    /\ chat_history[1] # chat_history[2]

\* C10: a failed relay is stored as the turn (message, "Error: ..."); every
\* payload replays the stored replies, error strings included, as assistant
\* messages, so its length is 2 + 2k after k earlier non-empty submits.
C10_FailedTurnsReplayed ==
    Called(rel_out) =>
        LET n == Len(chat_history)
            p == rel_out.calls[1].messages
        IN  /\ submits = n
            /\ Len(rel_out.calls) = 1
            /\ Len(p) = 2 + 2 * (submits - 1)
            /\ chat_history[n] = <<rel_in.message, rel_out.ret>>
            /\ RelayFails(rel_in) => StartsWith(chat_history[n][2], ErrorPrefix)
            /\ \A i \in 1..(n - 1) :
                  p[2 * i + 1] =
                      [role |-> "assistant", content |-> chat_history[i][2]]

C10_Witness ==
    /\ Called(rel_out)
    /\ Len(chat_history) = 2
    /\ StartsWith(chat_history[1][2], ErrorPrefix)
    /\ rel_out.calls[1].messages[3].content = chat_history[1][2]
    /\ Len(rel_out.calls[1].messages) = 4

====
